---- MODULE Spec2Model ----
(***************************************************************************)
(* Model of MuddySwamp's control layer (control.py) and of the part of     *)
(* Character (character.py) that talks to it: Player and its registry,     *)
(* MultiController, Monoreceiver, Multireceiver with its DummyController   *)
(* adapters, and Character attach / detach / update / die.                 *)
(*                                                                         *)
(* Every method is an operator from a program state (a record of all the   *)
(* objects' fields) to the program state it leaves behind; an exception    *)
(* that propagates is recorded in the field err and stops the caller at    *)
(* that point, keeping the writes made so far.  One action runs one call   *)
(* made from the outside.                                                  *)
(*                                                                         *)
(* The location module is an external collaborator: add_char and           *)
(* remove_char are taken to succeed and have no effect on this state.      *)
(***************************************************************************)
EXTENDS Integers, Sequences, FiniteSets, TLC

\* ---------------------------------------------------------------- bounds
MaxQueue == 2      \* most commands waiting in one Player's queue
MaxExc == 4        \* most exception objects created in one run
MaxSent == 3       \* most commands sent in one run
MaxMsgs == 6       \* most messages waiting in one Player's queue
MaxArgs == 2       \* most arguments of a MultiController
MaxInbox == 3      \* most messages waiting when a receiver reports another

\* ---------------------------------------------------------------- objects
None == "None"
Unset == "Unset"       \* the attribute does not exist on the object
NoErr == "ok"

PlayerPool == <<"p1", "p2", "p3">>     \* Player objects in the order they are made
Players == {PlayerPool[k] : k \in DOMAIN PlayerPool}
MCs == {"m1", "m2"}
Monos == {"r1", "r2"}
Chars == {"A", "B", "C"}
MR == "mr"
Ids == {"id1", "id2", "id3"}
CharNames == {"a", "b", "c"}

\* the DummyController that Multireceiver.__init__ builds for a member
DummyOf(rec) ==
    CASE rec = "A" -> "dA"
      [] rec = "B" -> "dB"
      [] rec = "C" -> "dC"
      [] rec = "r1" -> "dr1"
      [] rec = "r2" -> "dr2"
Dummies == {DummyOf(r) : r \in Chars \cup Monos}

Controllers == Players \cup MCs \cup Dummies
Receivers == Monos \cup Chars \cup {MR}

\* exception objects compare by identity: each one gets a fresh tag
ExcTags == <<"e1", "e2", "e3", "e4", "e5", "e6", "e7", "e8", "e9", "e10",
            "e11", "e12", "e13", "e14", "e15", "e16">>

\* command lines are sequences of tokens, a token is a word or one blank
Blank == " "
Lines == { <<"help">>, <<"bogus">>, <<Blank>>, <<"help", Blank, "bogus">> }
\* lines that name other commands
MoreLines == { <<"look">>, <<"help", Blank, "say">> }
\* messages the game hands to a member
Texts == { <<"Hi">>, <<"There">> }
\* argument lists of Multireceiver(*receivers): a receiver may be given twice
MRArgs == UNION {[1..n -> {"r1", "r2"}] : n \in 1..(MaxArgs + 1)}

\* the names a caller binds generators of Player.receive_messages to; "g0"
\* is the one that list(Player.receive_messages()) consumes and drops
Gens == {"g1", "g2"}
AllGens == Gens \cup {"g0"}
\* a generator object: st says whether it was made, has started and has ended;
\* used, left and pos are the fields of the iterator over player_ids.items()
\* (size of the dict when the iterator was made, entries still owed, entries
\* passed); id and player are the loop's variables.  alone records that no
\* other call has run since the generator was made, and as long as that is
\* so, due and ids record how many pairs were waiting when it was made and
\* the ids of the pairs it has yielded.
NoGen ==
    [st |-> Unset, used |-> 0, left |-> 0, pos |-> 0, id |-> "", player |-> "",
     due |-> 0, ids |-> <<>>, alone |-> FALSE]
Finished == [NoGen EXCEPT !.st = "finished"]

VARIABLES
    player_ids,      \* Player.player_ids: sequence of <<id, player>>, insertion order
    id,              \* Player.id
    receiver,        \* Controller.receiver
    character,       \* attribute "character" that Character.attach puts on a controller
    command_queue,   \* Player._command_queue / DummyController._command_queue
    message_queue,   \* Player._message_queue
    ctrl_list,       \* MultiController._ctrl_list
    controller,      \* Monoreceiver/Character/Multireceiver.controller
    name,            \* Character.name (instance attribute)
    names,           \* Character.names: set of <<name, character>>
    rec_dict,        \* Multireceiver._rec_dict keys in order (value is DummyOf(key))
    outgoing,        \* Multireceiver.outgoing
    outgoing_size,   \* Multireceiver.outgoing_size
    nextExc,         \* number of exception objects created so far
    err,             \* how the last call ended
    op,              \* the last call and its arguments
    trace,           \* what the last call did, in order
    mcargs,          \* constructor arguments of each MultiController
    fanned,          \* every command Multireceiver.update took from its controller
    got,             \* every command added to each member's adapter
    sent,            \* number of commands sent so far
    sources,         \* the member whose adapter sent each entry of outgoing
    stale,           \* per Player, how many of its oldest commands were
                     \* waiting when a detach last severed the Player
    gen              \* the generator objects that Player.receive_messages made

vars == <<player_ids, id, receiver, character, command_queue, message_queue,
          ctrl_list, controller, name, names, rec_dict, outgoing,
          outgoing_size, nextExc, err, op, trace, mcargs, fanned, got, sent,
          sources, stale, gen>>

\* the program state as one value
S ==
    [player_ids |-> player_ids, id |-> id, receiver |-> receiver,
     character |-> character, command_queue |-> command_queue,
     message_queue |-> message_queue, ctrl_list |-> ctrl_list,
     controller |-> controller, name |-> name, names |-> names,
     rec_dict |-> rec_dict, outgoing |-> outgoing,
     outgoing_size |-> outgoing_size, nextExc |-> nextExc,
     err |-> NoErr, trace |-> <<>>, mcargs |-> mcargs,
     fanned |-> fanned, got |-> got, sent |-> sent, exc |-> <<>>,
     sources |-> sources, stale |-> stale, gen |-> gen]

\* the state before anything is constructed
Empty ==
    [player_ids |-> <<>>,
     id |-> [p \in Players |-> Unset],
     receiver |-> [c \in Controllers |-> Unset],
     character |-> [c \in Controllers |-> Unset],
     command_queue |-> [c \in Players \cup Dummies |-> <<>>],
     message_queue |-> [p \in Players |-> <<>>],
     ctrl_list |-> [m \in MCs |-> Unset],
     controller |-> [r \in Receivers |-> Unset],
     name |-> [ch \in Chars |-> Unset],
     names |-> {},
     rec_dict |-> Unset,
     outgoing |-> <<>>,
     outgoing_size |-> 0,
     nextExc |-> 0,
     err |-> NoErr,
     trace |-> <<>>,
     mcargs |-> [m \in MCs |-> <<>>],
     fanned |-> <<>>,
     got |-> [r \in Chars \cup Monos |-> <<>>],
     sent |-> 0,
     exc |-> <<>>,
     sources |-> <<>>,
     stale |-> [c \in Players |-> 0],
     gen |-> [g \in AllGens |-> NoGen]]

Raise(s, e) == [s EXCEPT !.err = e]
\* a detach has cut controller c off: the commands waiting in a Player's
\* queue at this moment are the ones the detach leaves behind
Sever(s, c) ==
    IF c \in Players
    THEN [s EXCEPT !.stale[c] = Len(s.command_queue[c])]
    ELSE s
\* raise an exception object that a handler will look at
RaiseObj(s, e, obj) == [s EXCEPT !.err = e, !.exc = obj]
Ev(s, kind, obj, data) == [s EXCEPT !.trace = Append(@, <<kind, obj, data>>)]
Ok(s) == s.err = NoErr

\* ---------------------------------------------------------------- helpers
Range(f) == {f[i] : i \in DOMAIN f}
DictHas(d, k) == \E i \in DOMAIN d : d[i][1] = k
DictGet(d, k) == d[CHOOSE i \in DOMAIN d : d[i][1] = k][2]
DictDel(d, k) == SelectSeq(d, LAMBDA e : e[1] # k)
DictSet(d, k, v) ==
    IF DictHas(d, k)
    THEN [i \in DOMAIN d |-> IF d[i][1] = k THEN <<k, v>> ELSE d[i]]
    ELSE Append(d, <<k, v>>)

\* ---------------------------------------------------------------- Player
\* Player.__init__
PlayerInitNoCheck(s, p, i) ==
    [s EXCEPT !.id[p] = i,
              !.player_ids = DictSet(@, i, p),
              !.receiver[p] = None,
              !.command_queue[p] = <<>>,
              !.message_queue[p] = <<>>]
PlayerInit(s, p, i) ==
    IF DictHas(s.player_ids, i)
    THEN Raise(s, "Exception")
    ELSE [s EXCEPT !.id[p] = i,
                   !.player_ids = DictSet(@, i, p),
                   !.receiver[p] = None,
                   !.command_queue[p] = <<>>,
                   !.message_queue[p] = <<>>]

\* ---------------------------------------------------------------- MultiController
\* MultiController.__init__: nested MultiControllers are extended in place
RECURSIVE Flatten(_, _)
Flatten(s, args) ==
    IF args = <<>> THEN <<>>
    ELSE LET ctrl == Head(args)
         IN  (IF ctrl \in MCs THEN s.ctrl_list[ctrl] ELSE <<ctrl>>)
             \o Flatten(s, Tail(args))
MultiControllerInit(s, m, args) ==
    [s EXCEPT !.ctrl_list[m] = Flatten(s, args), !.mcargs[m] = args]

\* ---------------------------------------------------------------- has_cmd / read_cmd
\* Player.has_cmd, DummyController.has_cmd
QueueHasCmdAlways(s, c) == TRUE
QueueHasCmd(s, c) == s.command_queue[c] # <<>>
\* MultiController.has_cmd
MultiControllerHasCmd(s, m) ==
    \E k \in DOMAIN s.ctrl_list[m] : QueueHasCmd(s, s.ctrl_list[m][k])
HasCmd(s, c) ==
    IF c \in MCs THEN MultiControllerHasCmd(s, c) ELSE QueueHasCmd(s, c)

\* Player.read_cmd, DummyController.read_cmd: Queue.get() waits on an empty queue
QueueReadCmd(s, c) ==
    IF s.command_queue[c] = <<>>
    THEN [st |-> Raise(Ev(s, "read_cmd", c, <<>>), "Blocked"), val |-> <<>>]
    ELSE LET s1 == IF c \in Players /\ s.stale[c] > 0
                   THEN Ev([s EXCEPT !.stale[c] = @ - 1],
                           "stale", c, Head(s.command_queue[c]))
                   ELSE s
         IN  [st |-> Ev([s1 EXCEPT !.command_queue[c] = Tail(@)],
                        "read_cmd", c, Head(s.command_queue[c])),
              val |-> Head(s.command_queue[c])]
\* MultiController.read_cmd: the first controller that has a command
MultiControllerReadCmdLast(s, m) ==
    LET l == s.ctrl_list[m]
        hits == {k \in DOMAIN l : QueueHasCmd(s, l[k])}
    IN  IF hits = {} THEN [st |-> s, val |-> <<None>>]
        ELSE QueueReadCmd(s, l[CHOOSE k \in hits : \A j \in hits : k >= j])
MultiControllerReadCmd(s, m) ==
    LET l == s.ctrl_list[m]
        hits == {k \in DOMAIN l : QueueHasCmd(s, l[k])}
    IN  IF hits = {} THEN [st |-> s, val |-> <<None>>]
        ELSE QueueReadCmd(s, l[CHOOSE k \in hits : \A j \in hits : k <= j])
ReadCmd(s, c) ==
    IF c \in MCs THEN MultiControllerReadCmd(s, c) ELSE QueueReadCmd(s, c)

\* ---------------------------------------------------------------- write_msg towards the outside
\* Player.write_msg
PlayerWriteMsg(s, p, msg) ==
    Ev([s EXCEPT !.message_queue[p] = Append(@, msg)], "write_msg", p, msg)
\* MultiController.write_msg: every controller of the list gets the message
RECURSIVE WriteEach(_, _, _)
WriteEach(s, l, msg) ==
    IF l = <<>> THEN s
    ELSE WriteEach(PlayerWriteMsg(s, Head(l), msg), Tail(l), msg)
MultiControllerWriteMsg(s, m, msg) == WriteEach(s, s.ctrl_list[m], msg)
\* write_msg of the controller attached to the Multireceiver
OuterWriteMsg(s, c, msg) ==
    IF c \in MCs THEN MultiControllerWriteMsg(s, c, msg)
    ELSE PlayerWriteMsg(s, c, msg)

\* ---------------------------------------------------------------- text
\* str(receiver): Character.__str__ is "%s the %s" % (name, class name);
\* a Monoreceiver has the default object text; "%s" % None is "None"
Str(s, rec) ==
    IF rec \in Chars THEN <<s.name[rec], " the ", "Default Character">>
    ELSE IF rec \in Monos THEN <<"<control.Monoreceiver object ", rec, ">">>
    ELSE <<rec>>
Header(s, rec) == <<"[">> \o Str(s, rec) \o <<"]">>
LostNotice(s, rec) == <<"Lost connection wtih ">> \o Str(s, rec)
\* CharacterClass._build_help_menu for Character itself
HelpMenu == <<"[", "Default Character", " Commands]\n", "help\tlook\tsay\twalk", "\n">>
\* the docstring of the function cmd_<command>, as one piece of text
Doc(command) ==
    CASE command = <<"help">> ->
           <<"Show relevant help information for a particular command.\n        usage: help [command]\n        If no command is supplied, a list of all commands is shown.\n        ">>
      [] command = <<"look">> ->
           <<"Provide information about the current location.\n        usage: look\n        ">>
      [] command = <<"say">> ->
           <<"Say a message aloud, sent to all players in your current locaton.\n        usage: say [msg]\n        ">>
      [] command = <<"walk">> ->
           <<"Walk to an accessible location.\n        usage: walk [exit name]\n        ">>
\* Character.starting_location is Location("NullLocation", "Default Location"),
\* an object of the location module: its verbose text, and it has no exits
LocationStr == <<"NullLocation: Default Location">>
ExitList == <<>>
\* CharacterClass.__init__: the functions named cmd_*
Commands == { <<"help">>, <<"look">>, <<"say">>, <<"walk">> }

\* str.strip() on a token sequence
RECURSIVE LStrip(_)
LStrip(l) == IF l # <<>> /\ Head(l) = Blank THEN LStrip(Tail(l)) ELSE l
RECURSIVE RStrip(_)
RStrip(l) ==
    IF l # <<>> /\ l[Len(l)] = Blank THEN RStrip(SubSeq(l, 1, Len(l) - 1)) ELSE l
Strip(l) == RStrip(LStrip(l))
\* line.split(" ")[0]: what stands before the first blank
RECURSIVE FirstWord(_)
FirstWord(l) ==
    IF l = <<>> \/ Head(l) = Blank THEN <<>> ELSE <<Head(l)>> \o FirstWord(Tail(l))
\* line[len(command)::].strip()
Args(l) == Strip(SubSeq(l, Len(FirstWord(l)) + 1, Len(l)))

\* a new AttributeError("Command '%s' not recognized." % command)
ExcTag(n) == IF n \in DOMAIN ExcTags THEN ExcTags[n] ELSE "e?"
NotRecognized(s, word) ==
    <<"AttributeError", ExcTag(s.nextExc + 1), "Command '">> \o word
        \o <<"' not recognized.">>
IsExc(msg) == msg # <<>> /\ msg[1] = "AttributeError"

\* ---------------------------------------------------------------- Multireceiver._message
Suppressed(win, rcv, message) ==
    \E k \in DOMAIN win : win[k][2] = message /\ win[k][1] # rcv
Trim(win, size) == IF Len(win) > size THEN Tail(win) ELSE win
NeedsHeader(win, rcv) == win = <<>> \/ win[Len(win)][1] # rcv
Message(s, rcv, message) ==
    LET s0 == Ev(s, "_message", rcv, message)
        win == Trim(s0.outgoing, s0.outgoing_size)
        s1 == [s0 EXCEPT !.outgoing = win]
        ext == s1.controller[MR]
    IN  IF Suppressed(win, rcv, message) THEN Ev(s1, "suppress", rcv, message)
        ELSE IF ext = None THEN s1
        ELSE LET s2 == IF NeedsHeader(win, rcv)
                       THEN OuterWriteMsg(s1, ext, Header(s1, rcv))
                       ELSE s1
                 s3 == OuterWriteMsg(s2, ext, message)
             IN  [s3 EXCEPT !.outgoing = Append(@, <<rcv, message>>)]
\* DummyController.write_msg
RecOf(d) == CHOOSE r \in Chars \cup Monos : DummyOf(r) = d
DummyWriteMsg(s, d, msg) ==
    LET s1 == Message(s, s.receiver[d], msg)
        kept == IF Len(s.outgoing) > s.outgoing_size THEN Tail(s.sources)
                ELSE s.sources
    IN  [s1 EXCEPT !.sources = IF Len(s1.outgoing) > Len(kept)
                               THEN Append(kept, RecOf(d)) ELSE kept]
\* controller.write_msg for whatever drives a Character
WriteMsg(s, c, msg) ==
    IF c \in Dummies THEN DummyWriteMsg(s, c, msg) ELSE OuterWriteMsg(s, c, msg)

\* ---------------------------------------------------------------- Character
\* Character.__init__ (set_location only touches the location)
CharacterInit(s, ch, c) ==
    [s EXCEPT !.name[ch] = None,
              !.controller[ch] = c,
              !.receiver[c] = ch]

\* Character.set_name
SetName(s, ch, new) ==
    IF \E e \in s.names : e[1] = new THEN Raise(s, "Exception")
    ELSE IF s.name[ch] # None /\ ~(\E e \in s.names : e[1] = s.name[ch])
    THEN Raise(s, "KeyError")
    ELSE [s EXCEPT !.names = {e \in @ : e[1] # s.name[ch]} \cup {<<new, ch>>},
                   !.name[ch] = new]

\* Character.die: del self.names[self.name]
Die(s, ch) ==
    IF \E e \in s.names : e[1] = s.name[ch]
    THEN [s EXCEPT !.names = {e \in @ : e[1] # s.name[ch]}]
    ELSE Raise(s, "KeyError")

\* Character.message
CharacterMessage(s, ch, msg) ==
    IF s.controller[ch] = None THEN Raise(s, "AttributeError")
    ELSE WriteMsg(s, s.controller[ch], msg)

\* Character.detach(hard_detach)
CharacterDetach(s, ch, hard_detach) ==
    IF s.controller[ch] = None THEN s
    ELSE LET s1 == Sever([s EXCEPT !.receiver[s.controller[ch]] = None,
                                   !.controller[ch] = None], s.controller[ch])
         IN  IF hard_detach THEN Die(s1, ch) ELSE s1

\* Character.attach
CharacterAttach(s, ch, c) ==
    IF c = s.controller[ch] THEN s
    ELSE LET s1 == CharacterDetach(s, ch, FALSE)
         IN  [s1 EXCEPT !.controller[ch] = c, !.character[c] = ch]

\* Character.cmd_help
CmdHelp(s, ch, args) ==
    IF Len(args) = 0 THEN CharacterMessage(s, ch, HelpMenu)
    ELSE IF FirstWord(args) \in Commands
    THEN CharacterMessage(s, ch, Doc(FirstWord(args)))
    ELSE RaiseObj(s, "NotRecognized", NotRecognized(s, FirstWord(args)))

\* Character.cmd_look: the text of the location, then the exits
ExitMsg ==
    IF Len(ExitList) = 0 THEN <<"\nExits Available:\n", "None">>
    ELSE <<"\nExits Available:\n">> \o ExitList
CmdLook(s, ch, args) ==
    LET s1 == CharacterMessage(s, ch, LocationStr)
    IN  IF ~Ok(s1) THEN s1 ELSE CharacterMessage(s1, ch, ExitMsg)

\* Character.parse_command; exc carries the exception object that is raised.
\* say and walk hand over to the location, whose code is outside these files.
ParseCommand(s, ch, line) ==
    LET command == FirstWord(line)
        s1 == Ev(s, "parse_command", ch, line)
    IN  IF command \notin Commands
        THEN RaiseObj(s1, "NotRecognized", NotRecognized(s1, command))
        ELSE IF command = <<"help">> THEN CmdHelp(s1, ch, Args(line))
        ELSE IF command = <<"look">> THEN CmdLook(s1, ch, Args(line))
        ELSE s1

\* the body of the loop of Character.update for one line that is not blank:
\* try parse_command, except Exception: message(ex)
TryParseSilent(s, ch, line) ==
    LET s1 == ParseCommand(s, ch, line)
    IN  IF Ok(s1) \/ s1.err = "Blocked" THEN s1
        ELSE [s1 EXCEPT !.err = NoErr, !.exc = <<>>]
TryParse(s, ch, line) ==
    LET s1 == ParseCommand(s, ch, line)
    IN  IF Ok(s1) \/ s1.err = "Blocked" THEN s1
        ELSE IF s1.err = "NotRecognized"
        THEN CharacterMessage([s1 EXCEPT !.err = NoErr, !.exc = <<>>,
                                         !.nextExc = @ + 1], ch, s1.exc)
        ELSE CharacterMessage([s1 EXCEPT !.err = NoErr], ch, <<s1.err>>)

\* Character.update
RECURSIVE CharacterLoop(_, _)
CharacterLoop(s, ch) ==
    IF ~Ok(s) THEN s
    ELSE IF s.controller[ch] = None THEN Raise(s, "AttributeError")
    ELSE IF ~HasCmd(s, s.controller[ch]) THEN s
    ELSE LET r == ReadCmd(s, s.controller[ch])
         IN  IF ~Ok(r.st) THEN r.st
             ELSE IF Strip(r.val) = <<>> THEN CharacterLoop(r.st, ch)
             ELSE CharacterLoop(TryParse(r.st, ch, r.val), ch)
CharacterUpdate(s, ch) == CharacterLoop(Ev(s, "update", ch, <<>>), ch)

\* ---------------------------------------------------------------- Monoreceiver
\* Monoreceiver.__init__
MonoreceiverInit(s, r) == [s EXCEPT !.controller[r] = None]

\* Monoreceiver.detach
MonoreceiverDetach(s, r) ==
    LET s1 == IF s.controller[r] # None
              THEN Sever([s EXCEPT !.receiver[s.controller[r]] = None],
                         s.controller[r])
              ELSE s
    IN  [s1 EXCEPT !.controller[r] = None]

\* rec.detach() for a member of the Multireceiver
MemberDetach(s, rec) ==
    IF rec \in Chars THEN CharacterDetach(s, rec, TRUE)
    ELSE MonoreceiverDetach(s, rec)

\* Multireceiver.detach
RECURSIVE DetachEach(_, _)
DetachEach(s, recs) ==
    IF ~Ok(s) \/ recs = <<>> THEN s
    ELSE DetachEach(MemberDetach(s, Head(recs)), Tail(recs))
MultireceiverDetach(s) == DetachEach(MonoreceiverDetach(s, MR), s.rec_dict)

\* receiver.detach()
Detach(s, r) ==
    IF r = MR THEN MultireceiverDetach(s) ELSE MemberDetach(s, r)

\* Monoreceiver.attach; self.detach() is the method of the object's own class
MonoreceiverAttach(s, r, c) ==
    IF c = s.controller[r] THEN s
    ELSE LET s1 == Detach(s, r)
         IN  IF ~Ok(s1) THEN s1
             ELSE [s1 EXCEPT !.controller[r] = c, !.receiver[c] = r]

\* rec.attach(controller) for a member of the Multireceiver
MemberAttach(s, rec, c) ==
    IF rec \in Chars THEN CharacterAttach(s, rec, c)
    ELSE MonoreceiverAttach(s, rec, c)

\* Controller.assume_control as inherited by DummyController
DummyAssumeControl(s, d, rec) ==
    LET s1 == MemberDetach(s, rec)
    IN  IF ~Ok(s1) THEN s1 ELSE MemberAttach(s1, rec, d)

\* ---------------------------------------------------------------- Multireceiver
\* the keys of the dict that self._rec_dict[rec] = ... fills from the
\* arguments: a receiver that is given again keeps its first place
RECURSIVE Keys(_)
Keys(recs) ==
    IF recs = <<>> THEN <<>>
    ELSE LET front == Keys(SubSeq(recs, 1, Len(recs) - 1))
             rec == recs[Len(recs)]
         IN  IF \E k \in DOMAIN front : front[k] = rec THEN front
             ELSE Append(front, rec)
\* Multireceiver.__init__: outgoing_size is int(len(self._rec_dict) * 1.5)
MultireceiverInit(s, recs) ==
    LET keys == Keys(recs)
    IN  [s EXCEPT !.controller[MR] = None,
                  !.rec_dict = keys,
                  !.receiver = [c \in Controllers |->
                                   IF \E k \in DOMAIN keys : c = DummyOf(keys[k])
                                   THEN CHOOSE r \in Range(keys) : c = DummyOf(r)
                                   ELSE @[c]],
                  !.command_queue = [c \in DOMAIN @ |->
                                   IF \E k \in DOMAIN keys : c = DummyOf(keys[k])
                                   THEN <<>> ELSE @[c]],
                  !.outgoing_size = (Len(keys) * 3) \div 2,
                  !.outgoing = <<>>]

\* Multireceiver.attach
RECURSIVE AssumeEach(_, _)
AssumeEach(s, recs) ==
    IF ~Ok(s) \/ recs = <<>> THEN s
    ELSE AssumeEach(DummyAssumeControl(s, DummyOf(Head(recs)), Head(recs)),
                    Tail(recs))
MultireceiverAttach(s, c) ==
    LET s1 == MonoreceiverAttach(s, MR, c)
    IN  AssumeEach(s1, s1.rec_dict)

\* receiver.attach(controller)
Attach(s, r, c) ==
    IF r = MR THEN MultireceiverAttach(s, c) ELSE MemberAttach(s, r, c)

\* Controller.assume_control
AssumeControl(s, c, r) ==
    LET s1 == Detach(s, r)
    IN  IF ~Ok(s1) THEN s1 ELSE Attach(s1, r, c)

\* MultiController.assume_control
MultiControllerAssumeControl(s, m, r) ==
    LET s1 == AssumeControl(s, m, r)
    IN  IF ~Ok(s1) THEN s1
        ELSE [s1 EXCEPT !.receiver = [c \in Controllers |->
                            IF c \in Range(s1.ctrl_list[m]) THEN r ELSE @[c]]]

\* Multireceiver._check_controllers
RECURSIVE CheckEachKeepSize(_, _)
CheckEachKeepSize(s, recs) ==
    IF ~Ok(s) \/ recs = <<>> THEN s
    ELSE LET rec == Head(recs)
         IN  IF s.controller[rec] # DummyOf(rec) /\ s.controller[rec] # None
             THEN IF s.controller[MR] = None THEN Raise(s, "AttributeError")
                  ELSE LET s1 == OuterWriteMsg(Ev(s, "evict", rec, <<>>),
                                               s.controller[MR],
                                               LostNotice(s, rec))
                           left == SelectSeq(s1.rec_dict, LAMBDA x : x # rec)
                       IN  CheckEachKeepSize([s1 EXCEPT !.rec_dict = left],
                                             Tail(recs))
             ELSE CheckEachKeepSize(s, Tail(recs))
RECURSIVE CheckEach(_, _)
CheckEach(s, recs) ==
    IF ~Ok(s) \/ recs = <<>> THEN s
    ELSE LET rec == Head(recs)
         IN  IF s.controller[rec] # DummyOf(rec) /\ s.controller[rec] # None
             THEN IF s.controller[MR] = None THEN Raise(s, "AttributeError")
                  ELSE LET s1 == OuterWriteMsg(Ev(s, "evict", rec, <<>>),
                                               s.controller[MR],
                                               LostNotice(s, rec))
                           left == SelectSeq(s1.rec_dict, LAMBDA x : x # rec)
                       IN  CheckEach([s1 EXCEPT !.rec_dict = left,
                                         !.outgoing_size = (Len(left) * 3) \div 2],
                                     Tail(recs))
             ELSE CheckEach(s, Tail(recs))
CheckControllers(s) == CheckEach(s, s.rec_dict)

\* DummyController.add_cmd for every adapter of the dict
RECURSIVE AddEachButLast(_, _, _)
AddEachButLast(s, recs, cmd) ==
    IF Len(recs) <= 1 THEN s
    ELSE AddEachButLast(
             Ev([s EXCEPT !.command_queue[DummyOf(Head(recs))] = Append(@, cmd),
                          !.got[Head(recs)] = Append(@, cmd)],
                "add_cmd", DummyOf(Head(recs)), cmd),
             Tail(recs), cmd)
RECURSIVE AddEach(_, _, _)
AddEach(s, recs, cmd) ==
    IF recs = <<>> THEN s
    ELSE AddEach(Ev([s EXCEPT !.command_queue[DummyOf(Head(recs))] = Append(@, cmd),
                              !.got[Head(recs)] = Append(@, cmd)],
                    "add_cmd", DummyOf(Head(recs)), cmd),
                 Tail(recs), cmd)

\* the fan-out loop of Multireceiver.update
RECURSIVE FanOut(_)
FanOut(s) ==
    IF ~Ok(s) THEN s
    ELSE IF s.controller[MR] = None THEN Raise(s, "AttributeError")
    ELSE IF ~HasCmd(s, s.controller[MR]) THEN s
    ELSE LET r == ReadCmd(s, s.controller[MR])
         IN  IF ~Ok(r.st) THEN r.st
             ELSE FanOut(AddEach([r.st EXCEPT !.fanned = Append(@, r.val)],
                                 r.st.rec_dict, r.val))

\* rec.update() for a member: Monoreceiver.update is declared without self
MemberUpdate(s, rec) ==
    IF rec \in Chars THEN CharacterUpdate(s, rec)
    ELSE Raise(Ev(s, "update", rec, <<>>), "TypeError")
RECURSIVE UpdateEach(_, _)
UpdateEach(s, recs) ==
    IF ~Ok(s) \/ recs = <<>> THEN s
    ELSE UpdateEach(MemberUpdate(s, Head(recs)), Tail(recs))

\* Multireceiver.update
MultireceiverUpdate(s) ==
    LET s1 == FanOut(CheckControllers(Ev(s, "update", MR, <<>>)))
    IN  IF ~Ok(s1) THEN s1
        ELSE UpdateEach(Ev(s1, "members", MR, <<>>), s1.rec_dict)

\* receiver.update()
Update(s, r) ==
    IF r = MR THEN MultireceiverUpdate(s) ELSE MemberUpdate(s, r)

\* ---------------------------------------------------------------- Player class methods
\* Player.poke
Poke(s, p) ==
    IF s.receiver[p] = None THEN Raise(s, "AttributeError")
    ELSE Update(s, s.receiver[p])

\* Player.send_command
SendCommandOp(s, i, command) ==
    IF ~DictHas(s.player_ids, i) THEN Raise(s, "KeyError")
    ELSE LET player == DictGet(s.player_ids, i)
         IN  Poke([s EXCEPT !.command_queue[player] = Append(@, command),
                            !.sent = @ + 1], player)

\* del Player.player_ids[i]: the entry leaves the dict; an iterator that had
\* passed it has one entry less behind it
DelEntry(s, i) ==
    LET k == CHOOSE j \in DOMAIN s.player_ids : s.player_ids[j][1] = i
    IN  [s EXCEPT !.player_ids = DictDel(@, i),
                  !.gen = [g \in AllGens |->
                              IF s.gen[g].st = "suspended" /\ k <= s.gen[g].pos
                              THEN [s.gen[g] EXCEPT !.pos = @ - 1]
                              ELSE s.gen[g]]]

\* Player.remove_player: an AttributeError of the detach is swallowed
RemovePlayerOp(s, i) ==
    IF ~DictHas(s.player_ids, i) THEN Raise(s, "KeyError")
    ELSE LET player == DictGet(s.player_ids, i)
             s1 == IF s.receiver[player] = None THEN s
                   ELSE Detach(s, s.receiver[player])
         IN  IF ~Ok(s1) THEN s1
             ELSE DelEntry(s1, i)

\* ---------------------------------------------------------------- Player.receive_messages
\* the pairs waiting in the queues of the entries of the registry, in order
RECURSIVE Waiting(_, _)
Waiting(s, items) ==
    IF items = <<>> THEN <<>>
    ELSE LET i == Head(items)[1]
             q == s.message_queue[Head(items)[2]]
         IN  [k \in DOMAIN q |-> <<"yield", i, q[k]>>] \o Waiting(s, Tail(items))

\* Player.receive_messages(): the call makes a generator and runs none of it
ReceiveMessages(s, g) ==
    [s EXCEPT !.gen[g] = [NoGen EXCEPT !.st = "created",
                                       !.due = Len(Waiting(s, s.player_ids)),
                                       !.alone = TRUE]]

\* the generator ends: by the end of the loop, or by the RuntimeError of the
\* dict iterator
GenStop(s, g) ==
    Raise(Ev([s EXCEPT !.gen[g] = Finished],
             "stop", g, <<IF s.gen[g].alone THEN "alone" ELSE "among others">>
                          \o [k \in 1..s.gen[g].due |-> "due"]
                          \o s.gen[g].ids),
          "StopIteration")
GenRaise(s, g, text) ==
    Raise(Ev([s EXCEPT !.gen[g] = Finished], "raise", g, <<text>>), "RuntimeError")

\* yield (id, player._message_queue.get()): the generator hands over the
\* oldest message of the Player and is suspended inside the while loop
GenYieldNewest(s, g) ==
    LET G == s.gen[g]
        q == s.message_queue[G.player]
    IN  Ev([s EXCEPT !.message_queue[G.player] = SubSeq(q, 1, Len(q) - 1),
                     !.gen[g].st = "suspended",
                     !.gen[g].ids = IF G.alone THEN Append(@, G.id) ELSE @],
           "yield", G.id, q[Len(q)])
GenYield(s, g) ==
    LET G == s.gen[g]
        q == s.message_queue[G.player]
    IN  Ev([s EXCEPT !.message_queue[G.player] = Tail(q),
                     !.gen[g].st = "suspended",
                     !.gen[g].ids = IF G.alone THEN Append(@, G.id) ELSE @],
           "yield", G.id, Head(q))

\* for id, player in Player.player_ids.items(): the dict iterator raises when
\* the dict has another size than when the iterator was made, ends after the
\* last entry, raises when an entry is left that it does not owe, and else
\* gives the next entry;  while player.has_msg(): yield ...
RECURSIVE GenFor(_, _)
GenWhile(s, g) ==
    IF s.message_queue[s.gen[g].player] # <<>> THEN GenYield(s, g)
    ELSE GenFor(s, g)
GenFor(s, g) ==
    LET G == s.gen[g]
    IN  IF Len(s.player_ids) # G.used
        THEN GenRaise(s, g, "dictionary changed size during iteration")
        ELSE IF G.pos >= Len(s.player_ids) THEN GenStop(s, g)
        ELSE IF G.left = 0
        THEN GenRaise(s, g, "dictionary keys changed during iteration")
        ELSE LET e == s.player_ids[G.pos + 1]
             IN  GenWhile([s EXCEPT !.gen[g].pos = @ + 1,
                                    !.gen[g].left = @ - 1,
                                    !.gen[g].id = e[1],
                                    !.gen[g].player = e[2]], g)

\* next(g): a new generator makes the iterator and enters the loop, a
\* suspended one goes on after its yield, an ended one raises StopIteration
GenNext(s, g) ==
    LET G == s.gen[g]
    IN  IF G.st = "created"
        THEN GenFor([s EXCEPT !.gen[g].st = "suspended",
                              !.gen[g].used = Len(s.player_ids),
                              !.gen[g].left = Len(s.player_ids),
                              !.gen[g].pos = 0], g)
        ELSE IF G.st = "suspended" THEN GenWhile(s, g)
        ELSE Raise(s, "StopIteration")

\* list(Player.receive_messages()): next until StopIteration, which list
\* takes as the end; the generator is dropped
RECURSIVE ListGen(_, _)
ListGen(s, g) ==
    LET s1 == GenNext(s, g)
    IN  IF s1.err = "StopIteration"
        THEN [s1 EXCEPT !.err = NoErr, !.gen[g] = NoGen,
                        !.trace = SubSeq(@, 1, Len(@) - 1)]
        ELSE IF ~Ok(s1) THEN [s1 EXCEPT !.gen[g] = NoGen]
        ELSE ListGen(s1, g)
ReceiveMessagesOp(s) == ListGen(ReceiveMessages(s, "g0"), "g0")

\* ---------------------------------------------------------------- calls from the outside
PlayerMade(p) == id[p] # Unset
MCMade(m) == ctrl_list[m] # Unset
RecMade(r) == controller[r] # Unset
MRMade == rec_dict # Unset
OuterMade == {p \in Players : PlayerMade(p)} \cup {m \in MCs : MCMade(m)}

\* the bounds of the model
Within(T) ==
    /\ T.nextExc <= MaxExc
    /\ T.sent <= MaxSent
    /\ \A c \in Players \cup Dummies : Len(T.command_queue[c]) <= MaxQueue
    /\ \A c \in Players : Len(T.message_queue[c]) <= MaxMsgs

Commit(T, o) ==
    /\ Within(T)
    /\ player_ids' = T.player_ids
    /\ id' = T.id
    /\ receiver' = T.receiver
    /\ character' = T.character
    /\ command_queue' = T.command_queue
    /\ message_queue' = T.message_queue
    /\ ctrl_list' = T.ctrl_list
    /\ controller' = T.controller
    /\ name' = T.name
    /\ names' = T.names
    /\ rec_dict' = T.rec_dict
    /\ outgoing' = T.outgoing
    /\ outgoing_size' = T.outgoing_size
    /\ nextExc' = T.nextExc
    /\ err' = T.err
    /\ op' = o
    /\ trace' = T.trace
    /\ mcargs' = T.mcargs
    /\ fanned' = T.fanned
    /\ got' = T.got
    /\ sent' = T.sent
    /\ sources' = T.sources
    /\ stale' = T.stale
    /\ gen' = [g \in AllGens |->
                   IF T.gen[g].st \in {"created", "suspended"}
                      /\ ~(o[1] \in {"receive_messages", "next"} /\ o[2] = g)
                   THEN [T.gen[g] EXCEPT !.alone = FALSE, !.due = 0, !.ids = <<>>]
                   ELSE T.gen[g]]

\* Player(i): the new object is the next one of the pool
NewPlayerOf(Pool, IS) ==
    \E k \in DOMAIN Pool, i \in IS :
      LET p == Pool[k] IN
        /\ ~PlayerMade(p)
        /\ \A j \in 1..(k - 1) : PlayerMade(Pool[j])
        /\ Commit(PlayerInit(S, p, i), <<"Player", p, i>>)

\* MultiController(*args)
NewMultiControllerOf(MS, AS) ==
    \E m \in MS, args \in AS :
        /\ ~MCMade(m)
        /\ \A k \in DOMAIN args : args[k] \in OuterMade
        /\ Commit(MultiControllerInit(S, m, args), <<"MultiController", m, args>>)

\* Character(c)
NewCharacterOf(CH, CS) ==
    \E ch \in CH, c \in CS \cap OuterMade :
        /\ ~RecMade(ch)
        /\ Commit(CharacterInit(S, ch, c), <<"Character", ch, c>>)

\* ch.set_name(n)
DoSetNameOf(CH, NS) ==
    \E ch \in CH, n \in NS :
        /\ RecMade(ch)
        /\ Commit(SetName(S, ch, n), <<"set_name", ch, n>>)

\* Multireceiver(*recs)
NewMultireceiverOf(AS) ==
    \E recs \in AS :
        /\ ~MRMade
        /\ \A k \in DOMAIN recs : RecMade(recs[k])
        /\ Commit(MultireceiverInit(S, recs), <<"Multireceiver", MR, recs>>)

\* r.attach(c)
DoAttachOf(RS, CS) ==
    \E r \in RS, c \in CS \cap OuterMade :
        /\ RecMade(r)
        /\ Commit(Attach(S, r, c), <<"attach", r, c>>)

\* r.detach()
DoDetachOf(RS) ==
    \E r \in RS :
        /\ RecMade(r)
        /\ Commit(Detach(S, r), <<"detach", r, "True">>)

\* ch.detach(False)
DoSoftDetachOf(CH) ==
    \E ch \in CH :
        /\ RecMade(ch)
        /\ Commit(CharacterDetach(S, ch, FALSE), <<"detach", ch, "False">>)

\* c.assume_control(r)
DoAssumeControlOf(CS, RS) ==
    \E c \in CS \cap OuterMade, r \in RS :
        /\ RecMade(r)
        /\ Commit(IF c \in MCs THEN MultiControllerAssumeControl(S, c, r)
                  ELSE AssumeControl(S, c, r),
                  <<"assume_control", c, r>>)

\* Player.send_command(i, line)
SendCommandOf(IS, LS) ==
    \E i \in IS, line \in LS :
        Commit(SendCommandOp(S, i, line), <<"send_command", i, line>>)

\* Player.remove_player(i)
RemovePlayerOf(IS) ==
    \E i \in IS :
        Commit(RemovePlayerOp(S, i), <<"remove_player", i, <<>>>>)

\* mr.update()
DoUpdate ==
    /\ MRMade
    /\ Commit(MultireceiverUpdate(S), <<"update", MR, <<>>>>)

\* a member of the Multireceiver sends a message: rec.message(msg)
EmitOf(TS) ==
    \E k \in DOMAIN rec_dict, msg \in TS :
        /\ MRMade
        /\ Commit(CharacterMessage(S, rec_dict[k], msg),
                  <<"message", rec_dict[k], msg>>)

\* ch.message(msg)
DoMessageOf(CH, TS) ==
    \E ch \in CH, msg \in TS :
        /\ RecMade(ch)
        /\ Commit(CharacterMessage(S, ch, msg), <<"message", ch, msg>>)

\* r.controller.write_msg(msg): receiver r reports to whatever drives it
DoWriteMsgOf(RS, TS) ==
    \E r \in RS, msg \in TS :
        /\ RecMade(r)
        /\ Commit(IF controller[r] = None THEN Raise(S, "AttributeError")
                  ELSE WriteMsg(S, controller[r], msg),
                  <<"write_msg", r, msg>>)

\* list(Player.receive_messages()): the caller takes every pair before it
\* makes another call
DoListReceiveMessages ==
    Commit(ReceiveMessagesOp(S), <<"list", "", <<>>>>)

\* g = Player.receive_messages()
DoReceiveMessagesOf(GS) ==
    \E g \in GS :
        Commit(ReceiveMessages(S, g), <<"receive_messages", g, <<>>>>)

\* next(g)
DoNextOf(GS) ==
    \E g \in GS :
        /\ gen[g].st # Unset
        /\ Commit(GenNext(S, g), <<"next", g, <<>>>>)

\* m.read_cmd(), called when m.has_cmd() says there is a command
DoReadCmd ==
    \E m \in MCs :
        /\ MCMade(m)
        /\ HasCmd(S, m)
        /\ LET r == ReadCmd(S, m)
           IN  Commit(Ev(r.st, "return", m, r.val), <<"read_cmd", m, <<>>>>)

\* ---------------------------------------------------------------- specifications
Start(T) ==
    /\ player_ids = T.player_ids
    /\ id = T.id
    /\ receiver = T.receiver
    /\ character = T.character
    /\ command_queue = T.command_queue
    /\ message_queue = T.message_queue
    /\ ctrl_list = T.ctrl_list
    /\ controller = T.controller
    /\ name = T.name
    /\ names = T.names
    /\ rec_dict = T.rec_dict
    /\ outgoing = T.outgoing
    /\ outgoing_size = T.outgoing_size
    /\ nextExc = T.nextExc
    /\ err = NoErr
    /\ op = <<"start", "", <<>>>>
    /\ trace = <<>>
    /\ mcargs = T.mcargs
    /\ fanned = T.fanned
    /\ got = T.got
    /\ sent = T.sent
    /\ sources = T.sources
    /\ stale = T.stale
    /\ gen = T.gen

\* ---- Spec: attach, detach and assume_control over Monoreceivers, a
\* Character, two Players and a MultiController of both
World1 ==
    MultiControllerInit(
        PlayerInit(PlayerInit(MonoreceiverInit(MonoreceiverInit(Empty, "r1"), "r2"),
                              "p1", "id1"), "p2", "id2"),
        "m1", <<"p1", "p2">>)

Init == Start(World1)
NewCharacter == NewCharacterOf({"A"}, Players \cup MCs)
DoSetName == DoSetNameOf({"A"}, {"a"})
DoAttach == DoAttachOf(Monos \cup Chars, Players \cup MCs)
DoDetach == DoDetachOf(Monos \cup Chars)
DoSoftDetach == DoSoftDetachOf(Chars)
DoAssumeControl == DoAssumeControlOf(Players \cup MCs, Monos \cup Chars)
Next ==
    \/ NewCharacter
    \/ DoSetName
    \/ DoAttach
    \/ DoDetach
    \/ DoSoftDetach
    \/ DoAssumeControl
Spec == Init /\ [][Next]_vars

\* C1: after completed attach, detach and assume_control calls, for every
\* receiver r and controller c, r.controller is c exactly when c.receiver is r.
C1_SymmetricAttach ==
    err = NoErr =>
        \A r \in Monos \cup Chars, c \in Players \cup MCs :
            (RecMade(r) /\ c \in OuterMade) =>
                (controller[r] = c <=> receiver[c] = r)

\* ---- SpecMC: MultiControllers built over three Players whose queues are
\* filled by send_command (no receiver is attached, the command stays queued)
World2 ==
    PlayerInit(PlayerInit(PlayerInit(Empty, "p1", "id1"), "p2", "id2"),
               "p3", "id3")
InitMC == Start(World2)
\* m1 is built over two Players, m2 over m1 and the third Player
MCArgs1 == UNION {[1..n -> {"p1", "p2"}] : n \in 1..MaxArgs}
MCArgs2 == UNION {[1..n -> {"m1", "p3"}] : n \in 1..MaxArgs}
MC_New ==
    \/ NewMultiControllerOf({"m1"}, MCArgs1)
    \/ NewMultiControllerOf({"m2"}, MCArgs2)
MC_Send == SendCommandOf(Ids, {<<"help">>, <<"bogus">>})
MC_Read == DoReadCmd
NextMC ==
    \/ MC_New
    \/ MC_Send
    \/ MC_Read
SpecMC == InitMC /\ [][NextMC]_vars

\* the leaves of a MultiController, from the arguments it was built with,
\* left to right, a nested MultiController standing for its own leaves
RECURSIVE LeavesOfArgs(_)
Leaves(m) == LeavesOfArgs(mcargs[m])
LeavesOfArgs(args) ==
    IF args = <<>> THEN <<>>
    ELSE (IF Head(args) \in MCs THEN Leaves(Head(args)) ELSE <<Head(args)>>)
         \o LeavesOfArgs(Tail(args))
FirstWithCmd(L) ==
    CHOOSE k \in DOMAIN L :
        /\ command_queue[L[k]] # <<>>
        /\ \A j \in 1..(k - 1) : command_queue[L[j]] = <<>>

\* C7: has_cmd() is true exactly when a leaf has a queued command; read_cmd()
\* called when has_cmd() is true returns and removes the oldest command of the
\* first such leaf in left-to-right construction order, nested composites
\* expanded in place, and no other queue changes.
C7_HasCmd ==
    \A m \in MCs : MCMade(m) =>
        (HasCmd(S, m) <=> \E k \in DOMAIN Leaves(m) : command_queue[Leaves(m)[k]] # <<>>)
C7_ReadCmd ==
    (op'[1] = "read_cmd") =>
        LET L == Leaves(op'[2])
            k == FirstWithCmd(L)
        IN  /\ err' = NoErr
            /\ trace'[Len(trace')] = <<"return", op'[2], Head(command_queue[L[k]])>>
            /\ command_queue' = [command_queue EXCEPT ![L[k]] = Tail(@)]
C7_Routing == [](C7_HasCmd) /\ [][C7_ReadCmd]_vars
\* a nested MultiController returned a command of a leaf that is not its first
\* leaf while a later leaf also had one
C7_Witness ==
    /\ op[1] = "read_cmd"
    /\ \E k \in DOMAIN mcargs[op[2]] : mcargs[op[2]][k] \in MCs
    /\ trace[1][2] # ctrl_list[op[2]][1]
    /\ \E k \in DOMAIN ctrl_list[op[2]] :
          /\ ctrl_list[op[2]][k] # trace[1][2]
          /\ command_queue[ctrl_list[op[2]][k]] # <<>>

\* ---- SpecPlayer: the registry, Players made and removed, and a Character
\* and a Monoreceiver they drive
World3 == MonoreceiverInit(Empty, "r1")
InitPlayer == Start(World3)
P_Ids == {"id1", "id2"}
P_Recs == {"r1", "A"}
P_NewPlayer == NewPlayerOf(<<"p1", "p2">>, P_Ids)
P_NewCharacter == NewCharacterOf({"A"}, Players)
P_SetName == DoSetNameOf({"A"}, {"a"})
P_Send == SendCommandOf(P_Ids, {<<"help">>})
P_Remove == RemovePlayerOf(P_Ids)
P_AssumeControl == DoAssumeControlOf(Players, P_Recs)
NextPlayer ==
    \/ P_NewPlayer
    \/ P_NewCharacter
    \/ P_SetName
    \/ P_Send
    \/ P_Remove
    \/ P_AssumeControl
SpecPlayer == InitPlayer /\ [][NextPlayer]_vars

\* ---- SpecSend: two Players, commands sent to them, and a Character that is
\* made for, taken over by and detached from them
World4 == PlayerInit(PlayerInit(Empty, "p1", "id1"), "p2", "id2")
InitSend == Start(World4)
S_Players == {"p1", "p2"}
S_NewCharacter == NewCharacterOf({"A"}, S_Players)
S_SetName == DoSetNameOf({"A"}, {"a"})
S_Send == SendCommandOf(P_Ids, Lines)
S_AssumeControl == DoAssumeControlOf(S_Players, {"A"})
S_SoftDetach == DoSoftDetachOf({"A"})
S_Receive == DoListReceiveMessages
NextSend ==
    \/ S_NewCharacter
    \/ S_SetName
    \/ S_Send
    \/ S_AssumeControl
    \/ S_SoftDetach
    \/ S_Receive
SpecSend == InitSend /\ [][NextSend]_vars

\* the world of a Multireceiver over named Characters that were made for p2
RECURSIVE MakeMembers(_, _)
MakeMembers(s, recs) ==
    IF recs = <<>> THEN s
    ELSE LET ch == Head(recs)
             nm == CASE ch = "A" -> "a" [] ch = "B" -> "b" [] ch = "C" -> "c"
         IN  MakeMembers(SetName(CharacterInit(s, ch, "p2"), ch, nm), Tail(recs))
World5(recs) == MultireceiverInit(MakeMembers(World4, recs), recs)
\* the server loop has read every message before the next event
Drained == \A p \in Players : message_queue[p] = <<>>

\* ---- SpecRoute: members of a Multireceiver hand messages to their adapters
\* while the Multireceiver is attached, detached and updated and members are
\* taken over and released
InitRoute == Start(World5(<<"A", "B">>))
R_Attach == DoAttachOf({MR}, {"p1"})
R_Detach == DoDetachOf({MR})
R_TakeOver == DoAttachOf({"A"}, {"p2"})
R_Release == DoSoftDetachOf({"A", "B"})
R_Update == Drained /\ DoUpdate
R_Emit == Drained /\ EmitOf(Texts)
R_Receive == DoListReceiveMessages
NextRoute ==
    \/ R_Attach
    \/ R_Detach
    \/ R_TakeOver
    \/ R_Release
    \/ R_Update
    \/ R_Emit
    \/ R_Receive
SpecRoute == InitRoute /\ [][NextRoute]_vars

\* ---- SpecFan: commands sent to the Player that drives a Multireceiver of
\* three Characters, while A is taken over by p2 and B is released
InitFan == Start(World5(<<"A", "B", "C">>))
F_Attach == DoAttachOf({MR}, {"p1"})
F_TakeOver == DoAttachOf({"A"}, {"p2"})
F_Release == DoSoftDetachOf({"B"})
F_Send == Drained /\ SendCommandOf({"id1"}, {<<"help">>, <<"bogus">>})
F_Update == Drained /\ DoUpdate
F_Receive == DoListReceiveMessages
NextFan ==
    \/ F_Attach
    \/ F_TakeOver
    \/ F_Release
    \/ F_Send
    \/ F_Update
    \/ F_Receive
SpecFan == InitFan /\ [][NextFan]_vars

\* ---------------------------------------------------------------- what a call did
\* the data of the events of one kind on one object, in order
EventsOf(tr, kind, obj) ==
    LET sel == SelectSeq(tr, LAMBDA e : e[1] = kind /\ e[2] = obj)
    IN  [k \in DOMAIN sel |-> sel[k][3]]
NotBlank(l) == Strip(l) # <<>>
\* the word a line is rejected for, <<"">> standing for a line that is accepted
RejectedWord(l) ==
    IF FirstWord(l) \notin Commands THEN FirstWord(l)
    ELSE IF FirstWord(l) = <<"help">> /\ Args(l) # <<>> /\ FirstWord(Args(l)) \notin Commands
    THEN FirstWord(Args(l))
    ELSE <<"">>
Rejected(l) == NotBlank(l) /\ RejectedWord(l) # <<"">>
ErrorWords(msgs) ==
    LET errs == SelectSeq(msgs, IsExc)
    IN  [k \in DOMAIN errs |-> SubSeq(errs[k], 4, Len(errs[k]) - 1)]
RejectedWords(lines) ==
    LET bad == SelectSeq(lines, Rejected)
    IN  [k \in DOMAIN bad |-> RejectedWord(bad[k])]

\* C8: when send_command(id, text) is called for a Player that drives a
\* Character, it returns, the Character has read every queued command and text
\* in FIFO order in that one pass, the queue is empty, and every rejected
\* command has put exactly one error message on the Player's message queue, in
\* the order of the commands, later commands being processed all the same.
C8_Step ==
    (/\ op'[1] = "send_command"
     /\ DictHas(player_ids, op'[2])
     /\ receiver[DictGet(player_ids, op'[2])] \in Chars
     /\ controller[receiver[DictGet(player_ids, op'[2])]] = DictGet(player_ids, op'[2]))
    => LET p == DictGet(player_ids, op'[2])
           ch == receiver[p]
           Q == Append(command_queue[p], op'[3])
           new == SubSeq(message_queue'[p], Len(message_queue[p]) + 1,
                         Len(message_queue'[p]))
       IN  /\ err' = NoErr
           /\ EventsOf(trace', "read_cmd", p) = Q
           /\ EventsOf(trace', "parse_command", ch) = SelectSeq(Q, NotBlank)
           /\ command_queue'[p] = <<>>
           /\ Len(message_queue'[p]) >= Len(message_queue[p])
           /\ SubSeq(message_queue'[p], 1, Len(message_queue[p])) = message_queue[p]
           /\ ErrorWords(new) = RejectedWords(Q)
C8_PushFifo == [][C8_Step]_vars
\* a pass that processed a rejected command and then an accepted one that had
\* been waiting in the queue
C8_Witness ==
    /\ op[1] = "send_command"
    /\ err = NoErr
    /\ DictHas(player_ids, op[2])
    /\ receiver[DictGet(player_ids, op[2])] \in Chars
    /\ LET p == DictGet(player_ids, op[2])
           read == EventsOf(trace, "read_cmd", p)
       IN  /\ Len(read) >= 2
           /\ Rejected(read[1])
           /\ read[2] = <<"help">>
           /\ Len(message_queue[p]) >= 2
           /\ IsExc(message_queue[p][Len(message_queue[p]) - 1])
           /\ message_queue[p][Len(message_queue[p])] = HelpMenu

\* C9: constructing a Player under a registered id, and send_command or
\* remove_player with an id that is not registered, end in an error and leave
\* the registry, every queue and every attach relation as they were.
C9_Fails ==
    \/ (op'[1] = "Player" /\ DictHas(player_ids, op'[3]))
    \/ (op'[1] = "send_command" /\ ~DictHas(player_ids, op'[2]))
    \/ (op'[1] = "remove_player" /\ ~DictHas(player_ids, op'[2]))
C9_Step ==
    C9_Fails =>
        /\ err' # NoErr
        /\ player_ids' = player_ids
        /\ id' = id
        /\ command_queue' = command_queue
        /\ message_queue' = message_queue
        /\ controller' = controller
        /\ receiver' = receiver
C9_FailedOpsChangeNothing == [][C9_Step]_vars
\* Player(id) was refused while a command was waiting and a receiver was driven
C9_Witness ==
    /\ op[1] = "Player"
    /\ err = "Exception"
    /\ \E p \in Players : command_queue[p] # <<>>
    /\ \E r \in P_Recs : controller[r] \in Players

\* C10: remove_player(id) of a registered id ends with the id absent from the
\* registry, the former receiver's controller None and the Player's receiver
\* None.
C10_Step ==
    (op'[1] = "remove_player" /\ DictHas(player_ids, op'[2]))
    => LET p == DictGet(player_ids, op'[2])
       IN  /\ ~DictHas(player_ids', op'[2])
           /\ receiver'[p] = None
           /\ receiver[p] # None => controller'[receiver[p]] = None
C10_RemovePlayer == [][C10_Step]_vars

\* ---------------------------------------------------------------- Multireceiver claims
\* the call ran Multireceiver.update
RanUpdate ==
    \/ op'[1] = "update"
    \/ /\ op'[1] = "send_command"
       /\ DictHas(player_ids, op'[2])
       /\ receiver[DictGet(player_ids, op'[2])] = MR
\* members whose controller is neither None nor their own adapter
Taken ==
    {rec \in Range(rec_dict) :
        controller[rec] # None /\ controller[rec] # DummyOf(rec)}
HasEvent(tr, kind, obj) == \E k \in DOMAIN tr : tr[k][1] = kind /\ tr[k][2] = obj
\* what update read from the controller that drives the Multireceiver
ReadByUpdate(tr) ==
    LET sel == SelectSeq(tr, LAMBDA e : e[1] = "read_cmd" /\ e[2] \in Players)
    IN  [k \in DOMAIN sel |-> sel[k][3]]
\* the eviction notices for rec among the messages written to player p
NoticesFor(tr, p, rec) ==
    SelectSeq(tr, LAMBDA e : /\ e[1] = "write_msg"
                             /\ e[2] = p
                             /\ Len(e[3]) = 1 + Len(Str(S, rec))
                             /\ SubSeq(e[3], 2, Len(e[3])) = Str(S, rec))

\* C2: every command update takes from the external controller is added once
\* to the adapter of every member that is active after failure detection, so
\* every surviving member has been handed the same commands in the order the
\* controller issued them, and the controller has no command left when the
\* fan-out ends.
C2_FanOut ==
    MRMade =>
        /\ \A k \in DOMAIN rec_dict : got[rec_dict[k]] = fanned
        /\ HasEvent(trace, "members", MR) =>
              /\ controller[MR] # None
              /\ ~HasCmd(S, controller[MR])
              /\ \A k \in DOMAIN rec_dict :
                    EventsOf(trace, "add_cmd", DummyOf(rec_dict[k])) = ReadByUpdate(trace)
\* one update fanned two waiting commands out to the two members left after an
\* eviction
C2_Witness ==
    /\ op[1] = "send_command"
    /\ err = NoErr
    /\ Len(rec_dict) = 2
    /\ Len(ReadByUpdate(trace)) >= 2
    /\ ReadByUpdate(trace)[1] # ReadByUpdate(trace)[2]
    /\ HasEvent(trace, "evict", "A")
    /\ \A k \in DOMAIN rec_dict :
          EventsOf(trace, "add_cmd", DummyOf(rec_dict[k])) = ReadByUpdate(trace)

\* C5: when a member has been taken over, the next update of a Multireceiver
\* that has an external controller completes, writes one notice naming the
\* member, drops it from the active set, hands it no command and does not
\* update it, while every other member gets every command and is updated.
C5_Step ==
    (RanUpdate /\ MRMade /\ controller[MR] \in Players /\ Taken # {})
    => /\ err' = NoErr
       /\ \A rec \in {"A", "B", "C"} \ Range(rec_dict') :
             /\ EventsOf(trace', "add_cmd", DummyOf(rec)) = <<>>
             /\ ~HasEvent(trace', "update", rec)
       /\ \A rec \in Taken :
             /\ Len(NoticesFor(trace', controller[MR], rec)) = 1
             /\ rec \notin Range(rec_dict')
             /\ EventsOf(trace', "add_cmd", DummyOf(rec)) = <<>>
             /\ ~HasEvent(trace', "update", rec)
       /\ \A rec \in Range(rec_dict) \ Taken :
             /\ rec \in Range(rec_dict')
             /\ EventsOf(trace', "add_cmd", DummyOf(rec)) = ReadByUpdate(trace')
             /\ HasEvent(trace', "update", rec)
C5_Eviction == [][C5_Step]_vars

\* C6: after a completed _message or update the dedup window holds at most
\* outgoing_size entries.
C6_BoundedWindow ==
    (op[1] \in {"message", "update"} /\ err = NoErr)
        => Len(outgoing) <= outgoing_size

\* the entries of the window that _message keeps before it scans
KeptFrom == IF Len(outgoing) > outgoing_size THEN 2 ELSE 1
\* the body m was written to the external controller by the call
Forwarded(tr, m) ==
    \E k \in DOMAIN tr : tr[k][1] = "write_msg" /\ tr[k][2] = controller[MR]
                         /\ tr[k][3] = m /\ (k = Len(tr) \/ tr[k + 1][1] # "write_msg")

\* C3: with an external controller attached, a message m that member X sends
\* through its adapter is forwarded exactly when the window, the oldest entry
\* dropped if it was over capacity, holds no m sent by another member.
C3_Step ==
    (op'[1] = "message" /\ controller[op'[2]] = DummyOf(op'[2])
        /\ controller[MR] \in Players)
    => LET X == op'[2]
           m == op'[3]
       IN  Forwarded(trace', m)
           <=> ~(\E k \in KeptFrom..Len(outgoing) :
                    outgoing[k][2] = m /\ sources[k] # X)
C3_Suppression == [][C3_Step]_vars

\* C4: when a message of member X is forwarded, the header "[X]" is written
\* just before the body exactly when the window is empty or its last entry
\* was sent by another member, and (X, message) is appended to the window.
C4_Step ==
    (op'[1] = "message" /\ controller[op'[2]] = DummyOf(op'[2])
        /\ controller[MR] \in Players /\ Forwarded(trace', op'[3]))
    => LET X == op'[2]
           m == op'[3]
           p == controller[MR]
           needs == KeptFrom > Len(outgoing) \/ sources[Len(sources)] # X
           wrote == EventsOf(trace', "write_msg", p)
       IN  /\ wrote = (IF needs THEN <<Header(S, X), m>> ELSE <<m>>)
           /\ outgoing' = Append(SubSeq(outgoing, KeptFrom, Len(outgoing)), <<X, m>>)
C4_Header == [][C4_Step]_vars

\* ---------------------------------------------------------------- registry and references
\* ---- SpecInbox: two registered Players that drive a Character each; the
\* Characters send messages, Players are removed, and the messages are
\* fetched: all at once, or pair by pair from up to two generators between
\* whose steps the other calls run
World6 ==
    SetName(CharacterInit(SetName(CharacterInit(World4, "A", "p1"), "A", "a"),
                          "B", "p2"), "B", "b")
InitInbox == Start(World6)
I_Message ==
    /\ Len(Waiting(S, player_ids)) < MaxInbox
    /\ DoMessageOf({"A", "B"}, Texts)
I_Remove == RemovePlayerOf({"id1", "id2"})
I_Receive == DoListReceiveMessages
\* a second generator is made while the first is in use
I_Call ==
    \/ DoReceiveMessagesOf({"g1"})
    \/ (gen["g1"].st \in {"created", "suspended"} /\ DoReceiveMessagesOf({"g2"}))
I_Step == DoNextOf(Gens)
NextInbox ==
    \/ I_Message
    \/ I_Remove
    \/ I_Receive
    \/ I_Call
    \/ I_Step
SpecInbox == InitInbox /\ [][NextInbox]_vars

\* the pairs waiting now
PairsOf(items) == Waiting(S, items)
Registered == {player_ids[k][2] : k \in DOMAIN player_ids}
Live == {"created", "suspended"}

\* C11 (as amended): when no other call runs between the call of
\* receive_messages() and the end of its generator, the generator yields every
\* message that was waiting in a registered Player's outbound queue once,
\* paired with that Player's id, in queue order per Player and registry order
\* across Players; when it ends no registered Player has a message, and a
\* call with nothing waiting yields nothing.  list(...) is one such
\* consumption.  Step by step: each next() yields the first of the pairs
\* waiting and leaves the rest waiting, and ends when none is waiting.
C11_List ==
    (op'[1] = "list")
    => /\ err' = NoErr
       /\ trace' = PairsOf(player_ids)
       /\ \A p \in Registered : message_queue'[p] = <<>>
       /\ \A p \in Players \ Registered : message_queue'[p] = message_queue[p]
       /\ player_ids' = player_ids
C11_Next(g) ==
    (op' = <<"next", g, <<>>>> /\ gen[g].st \in Live /\ gen[g].alone)
    => /\ gen[g].due = Len(gen[g].ids) + Len(PairsOf(player_ids))
       /\ player_ids' = player_ids
       /\ IF PairsOf(player_ids) # <<>>
          THEN /\ err' = NoErr
               /\ trace' = <<Head(PairsOf(player_ids))>>
               /\ Waiting(S', player_ids) = Tail(PairsOf(player_ids))
               /\ gen'[g].alone /\ gen'[g].ids = Append(gen[g].ids, trace'[1][2])
          ELSE /\ err' = "StopIteration"
               /\ message_queue' = message_queue
               /\ gen'[g].st = "finished"
C11_Step == C11_List /\ (\A g \in Gens : C11_Next(g))
C11_Uninterrupted == [][C11_Step]_vars
\* a generator that ran without another call in between has ended after it
\* yielded the three pairs that were waiting, two of the first Player and
\* then one of the second
C11_Witness ==
    /\ op = <<"next", "g1", <<>>>>
    /\ err = "StopIteration"
    /\ trace = <<<<"stop", "g1", <<"alone", "due", "due", "due",
                                  "id1", "id1", "id2">>>>>>
    /\ player_ids = <<<<"id1", "p1">>, <<"id2", "p2">>>>

\* C11 as it was stated, of every generator whatever runs between its steps:
\* when a generator of receive_messages() has been consumed to its end,
\* has_msg() is false for every registered Player.
C11_OriginalStep ==
    \A g \in Gens :
        (op' = <<"next", g, <<>>>> /\ gen[g].st \in Live /\ err' = "StopIteration")
        => \A k \in DOMAIN player_ids' : message_queue'[player_ids'[k][2]] = <<>>
C11_ReceiveMessages == [][C11_OriginalStep]_vars

\* the objects' fields, without what the model records about the last call
Fields ==
    <<player_ids, id, receiver, character, command_queue, message_queue,
      ctrl_list, controller, name, names, rec_dict, outgoing, outgoing_size>>

\* C12: r.attach(c) on a Monoreceiver or Multireceiver r whose controller
\* already is c returns without an error and changes no field of any object:
\* not r.controller, c.receiver, a member's controller, a queue or the window.
C12_Step ==
    (op'[1] = "attach" /\ op'[2] \in Monos \cup {MR} /\ controller[op'[2]] = op'[3])
    => /\ err' = NoErr
       /\ Fields' = Fields
C12_IdempotentAttach == [][C12_Step]_vars

\* C13: detach() on a Monoreceiver, Multireceiver or Character whose
\* controller is None returns without an error and changes no field of any
\* object: no controller's receiver, no member's controller, no queue.
C13_Step ==
    (op'[1] = "detach" /\ controller[op'[2]] = None)
    => /\ err' = NoErr
       /\ Fields' = Fields
C13_IdempotentDetach == [][C13_Step]_vars

\* C14: a command that was waiting in a Player's queue when a detach severed
\* the Player is dropped: no later call reads it, whichever receiver is
\* attached to that Player afterwards.
C14_DetachDrops == \A k \in DOMAIN trace : trace[k][1] # "stale"

\* C15: from construction on and after every eviction, the capacity of the
\* Multireceiver is floor(1.5 x the number of members in its active set).
C15_Capacity ==
    MRMade =>
        /\ 2 * outgoing_size <= 3 * Len(rec_dict)
        /\ 3 * Len(rec_dict) < 2 * outgoing_size + 2
\* an update has evicted a member of two, and the capacity went from 3 to 1
C15_Witness ==
    /\ op[1] = "update"
    /\ HasEvent(trace, "evict", "A")
    /\ Len(rec_dict) = 1
    /\ outgoing_size = 1

\* C16: the notice update writes to the external controller for every member
\* it evicts is the text "Lost connection with " followed by the member's
\* string form.
C16_NoticeText ==
    \A k \in DOMAIN trace :
        trace[k][1] = "evict" =>
            /\ k < Len(trace)
            /\ trace[k + 1][1] = "write_msg"
            /\ trace[k + 1][3] = <<"Lost connection with ">> \o Str(S, trace[k][2])

\* C17: the receiver reference of an existing controller changes only as the
\* effect of a receiver's attach or detach: the call is one that runs attach
\* or detach, and the controller ends up with no receiver or with a receiver
\* whose controller it is.
C17_Step ==
    \A c \in Controllers :
        (receiver[c] # Unset /\ receiver'[c] # receiver[c])
        => /\ op'[1] \in {"attach", "detach", "assume_control", "remove_player"}
           /\ \/ receiver'[c] = None
              \/ controller'[receiver'[c]] = c
C17_BackReference == [][C17_Step]_vars

\* ---- SpecPass: a Multireceiver of two Characters and a MultiController of
\* two Players.  The Multireceiver is attached to a Player, taken over by a
\* Player or by the MultiController, detached and updated, while commands are
\* sent to both Players; a command sent to a Player runs the update of the
\* Player's receiver, which is the Multireceiver or one of its members
World7 == MultiControllerInit(World5(<<"A", "B">>), "m1", <<"p1", "p2">>)
InitPass == Start(World7)
X_Ctrls == {"p1", "m1"}
X_Attach == DoAttachOf({MR}, {"p1"})
X_Detach == DoDetachOf({MR})
X_AssumeControl == DoAssumeControlOf(X_Ctrls, {MR})
X_Send == Drained /\ SendCommandOf(P_Ids, MoreLines)
X_Update == Drained /\ DoUpdate
X_Receive == DoListReceiveMessages
NextPass ==
    \/ X_Attach
    \/ X_Detach
    \/ X_AssumeControl
    \/ X_Send
    \/ X_Update
    \/ X_Receive
SpecPass == InitPass /\ [][NextPass]_vars

\* C18: no call ever reads a command from a queue that is empty at that
\* moment (not Character.update, not the fan-out of Multireceiver.update, not
\* MultiController.read_cmd, not a member reading its adapter), so no
\* send_command or update is left waiting on a queue.
C18_NoBlockingRead ==
    /\ err # "Blocked"
    /\ \A k \in DOMAIN trace : trace[k][1] = "read_cmd" => trace[k][3] # <<>>
\* one update of the Multireceiver, driven by the MultiController, took a
\* command of each Player in its fan-out, both members read it from their
\* adapters, and the update came to its end
C18_Witness ==
    /\ op[1] \in {"send_command", "update"}
    /\ err = NoErr
    /\ controller[MR] = "m1"
    /\ EventsOf(trace, "read_cmd", "p1") # <<>>
    /\ EventsOf(trace, "read_cmd", "p2") # <<>>
    /\ Len(EventsOf(trace, "read_cmd", "dA")) >= 2
    /\ Len(EventsOf(trace, "read_cmd", "dB")) >= 2
    /\ \A c \in Players \cup Dummies : command_queue[c] = <<>>

\* C19: Multireceiver.detach() leaves a member alone that an outside
\* controller has taken over and that is not evicted yet: the member keeps
\* that controller and the controller keeps its receiver reference.
C19_Step ==
    (op'[1] = "detach" /\ op'[2] = MR)
    => \A rec \in Taken :
          /\ controller'[rec] = controller[rec]
          /\ receiver'[controller[rec]] = receiver[controller[rec]]
C19_DetachSparesTaken == [][C19_Step]_vars

\* ---- SpecSwitch: a Multireceiver is made of Monoreceivers, some given more
\* than once, is attached to one Player or the other and detached, while its
\* members report messages.
\* Nothing reads the Players' outbound queues here, so a queue holds every
\* message that was ever written to its Player.
World8 == MonoreceiverInit(MonoreceiverInit(World4, "r1"), "r2")
InitSwitch == Start(World8)
W_New == NewMultireceiverOf(MRArgs)
W_Attach == DoAttachOf({MR}, {"p1", "p2"})
W_Detach == DoDetachOf({MR})
W_Emit ==
    /\ \A p \in Players : Len(message_queue[p]) < MaxInbox
    /\ DoWriteMsgOf({"r1", "r2"}, Texts)
NextSwitch ==
    \/ W_New
    \/ W_Attach
    \/ W_Detach
    \/ W_Emit
SpecSwitch == InitSwitch /\ [][NextSwitch]_vars

\* C20: whenever a member's message is suppressed as a duplicate while an
\* external controller is attached to the Multireceiver, an equal message was
\* written to that same controller before, also when the Multireceiver has
\* changed its controller between the two emissions.
C20_Step ==
    \A k \in DOMAIN trace' :
        (trace'[k][1] = "suppress" /\ controller[MR] \in Players)
        => \E j \in DOMAIN message_queue[controller[MR]] :
              message_queue[controller[MR]][j] = trace'[k][3]
C20_SuppressedWasHeard == [][C20_Step]_vars

====
